---- MODULE Spec2Model ----
(***************************************************************************)
(* Model of the Trello agent tool layer (agentic.py): the date/time        *)
(* normaliser, the board short-link extraction, the list lookup, the card  *)
(* and checklist tools, and a session in which the agent invokes tools.    *)
(*                                                                         *)
(* Text is modelled as a sequence of one-character strings, so that the    *)
(* regular expressions, strip() and lower() of the source are computed     *)
(* character by character.                                                 *)
(***************************************************************************)
EXTENDS Integers, Sequences, FiniteSets, TLC

VARIABLES
    pc,         \* position of the run: see each specification
    arg,        \* input of the pure function under check (pure specifications)
    ret,        \* its result
    defaults,   \* [board, list]: ENV_DEFAULT_BOARD / ENV_DEFAULT_LIST
    creds,      \* TRUE iff TRELLO_KEY and TRELLO_TOKEN are both set
    boardLists, \* the lists of the board, in the order the API returns them
    cards,      \* cards on the board, in creation order
    checklists, \* checklists on the board, in creation order
    call,       \* the tool call being observed: tool, arguments, requests issued
    obs,        \* the observation (return value or error) of that call
    nTools,     \* number of tool calls executed in the session
    nRequests   \* number of board API requests issued in the session

vars == <<pc, arg, ret, defaults, creds, boardLists, cards, checklists,
          call, obs, nTools, nRequests>>

-----------------------------------------------------------------------------
(* Bounds of the model *)

\* longest text, counted in fragments, given to the date normaliser
MaxFrags == 3
\* longest board reference, counted in fragments
MaxRefFrags == 4
\* most lists a board returns
MaxLists == 3
\* most items passed to trello_add_checklist
MaxItems == 3
\* most tool calls in a session
MaxToolCalls == 3

-----------------------------------------------------------------------------
(* Characters and strings *)

Min(S) == CHOOSE x \in S : \A y \in S : x <= y
Max(S) == CHOOSE x \in S : \A y \in S : x >= y

Digits == <<"0", "1", "2", "3", "4", "5", "6", "7", "8", "9">>

\* \d of the regular expressions
IsDigit(c) == \E i \in 1..10 : Digits[i] = c

\* int() of one digit
DigitVal(c) == (CHOOSE i \in 1..10 : Digits[i] = c) - 1

\* int() of a run of digits
RECURSIVE int(_)
int(ds) ==
    IF ds = <<>> THEN 0
    ELSE 10 * int(SubSeq(ds, 1, Len(ds) - 1)) + DigitVal(ds[Len(ds)])

LowerLetters ==
    <<"a", "b", "c", "d", "e", "f", "g", "h", "i", "j", "k", "l", "m",
      "n", "o", "p", "q", "r", "s", "t", "u", "v", "w", "x", "y", "z", "ã">>

UpperLetters ==
    <<"A", "B", "C", "D", "E", "F", "G", "H", "I", "J", "K", "L", "M",
      "N", "O", "P", "Q", "R", "S", "T", "U", "V", "W", "X", "Y", "Z", "Ã">>

\* [A-Za-z0-9] of the short-link regular expression
IsAlnum(c) ==
    \/ IsDigit(c)
    \/ \E i \in 1..26 : c = LowerLetters[i] \/ c = UpperLetters[i]

\* whitespace removed by str.strip()
IsSpace(c) == c \in {" ", "\t"}

\* str.lower() of one character
LowerChar(c) ==
    IF \E i \in 1..27 : UpperLetters[i] = c
    THEN LowerLetters[CHOOSE i \in 1..27 : UpperLetters[i] = c]
    ELSE c

\* str.lower()
lower(s) == [i \in 1..Len(s) |-> LowerChar(s[i])]

\* str.strip()
strip(s) ==
    LET keep == {i \in 1..Len(s) : ~IsSpace(s[i])}
    IN  IF keep = {} THEN <<>> ELSE SubSeq(s, Min(keep), Max(keep))

\* sub is found in s starting at position i
OccursAt(sub, s, i) ==
    /\ i >= 1
    /\ i + Len(sub) - 1 <= Len(s)
    /\ SubSeq(s, i, i + Len(sub) - 1) = sub

\* the Python test `sub in s`
Contains(sub, s) == \E i \in 1..(Len(s) + 1) : OccursAt(sub, s, i)

\* concatenation of a sequence of strings
RECURSIVE Concat(_)
Concat(ss) == IF ss = <<>> THEN <<>> ELSE Head(ss) \o Concat(Tail(ss))

\* all sequences over S of length at most n
SeqsUpTo(S, n) == UNION {[1..k -> S] : k \in 0..n}

-----------------------------------------------------------------------------
(* Calendar: datetime and timedelta of the standard library *)

IsLeap(y) == (y % 4 = 0 /\ y % 100 # 0) \/ y % 400 = 0

DaysInMonth(y, m) ==
    IF m = 2 THEN (IF IsLeap(y) THEN 29 ELSE 28)
    ELSE IF m \in {4, 6, 9, 11} THEN 30 ELSE 31

\* datetime(y, m, d, ...) accepts the date
ValidDate(y, m, d) ==
    /\ y \in 1..9999
    /\ m \in 1..12
    /\ d \in 1..DaysInMonth(y, m)

\* now + timedelta(days=1), date part
NextDay(t) ==
    IF t.d < DaysInMonth(t.y, t.m) THEN [y |-> t.y, m |-> t.m, d |-> t.d + 1]
    ELSE IF t.m < 12 THEN [y |-> t.y, m |-> t.m + 1, d |-> 1]
    ELSE [y |-> t.y + 1, m |-> 1, d |-> 1]

Pad2(n) == <<Digits[((n \div 10) % 10) + 1], Digits[(n % 10) + 1]>>

Pad4(n) == Pad2(n \div 100) \o Pad2(n % 100)

\* dt.strftime("%Y-%m-%dT%H:%M:%S")
strftime(dt) ==
    Pad4(dt.y) \o <<"-">> \o Pad2(dt.m) \o <<"-">> \o Pad2(dt.d) \o <<"T">>
    \o Pad2(dt.hh) \o <<":">> \o Pad2(dt.mm) \o <<":">> \o Pad2(dt.ss)

-----------------------------------------------------------------------------
(* _to_rfc3339_from_text *)

\* the word the source looks for with `"amanhã" in s`
Amanha == <<"a", "m", "a", "n", "h", "ã">>

\* default hour and minute when the text has no H:MM
DefaultHour == 9
DefaultMinute == 0

\* default offset when the text has none
DefaultTz == <<"-", "0", "3", ":", "0", "0">>

\* [+-]\d{2}:\d{2} matches s at position i
TzAt(s, i) ==
    /\ i >= 1
    /\ i + 5 <= Len(s)
    /\ s[i] \in {"+", "-"}
    /\ IsDigit(s[i + 1]) /\ IsDigit(s[i + 2])
    /\ s[i + 3] = ":"
    /\ IsDigit(s[i + 4]) /\ IsDigit(s[i + 5])

\* \d{2}:\d{2} matches s at position i (the greedy alternative of \d{1,2})
Hm2At(s, i) ==
    /\ i >= 1
    /\ i + 4 <= Len(s)
    /\ IsDigit(s[i]) /\ IsDigit(s[i + 1])
    /\ s[i + 2] = ":"
    /\ IsDigit(s[i + 3]) /\ IsDigit(s[i + 4])

\* \d:\d{2} matches s at position i
Hm1At(s, i) ==
    /\ i >= 1
    /\ i + 3 <= Len(s)
    /\ IsDigit(s[i])
    /\ s[i + 1] = ":"
    /\ IsDigit(s[i + 2]) /\ IsDigit(s[i + 3])

\* \d{4}-\d{2}-\d{2} matches s at position i
DateAt(s, i) ==
    /\ i >= 1
    /\ i + 9 <= Len(s)
    /\ \A k \in {0, 1, 2, 3, 5, 6, 8, 9} : IsDigit(s[i + k])
    /\ s[i + 4] = "-"
    /\ s[i + 7] = "-"

\* re.search(r"([+-]\d{2}:\d{2})", s): the offset, or the default
rfc3339_tz(s) ==
    LET hits == {i \in 1..Len(s) : TzAt(s, i)}
    IN  IF hits = {} THEN DefaultTz ELSE SubSeq(s, Min(hits), Min(hits) + 5)

\* re.search(r"(\d{1,2}):(\d{2})", s): hour and minute of the leftmost match
rfc3339_hm(s) ==
    LET hits == {i \in 1..Len(s) : Hm2At(s, i) \/ Hm1At(s, i)}
        i == Min(hits)
    IN  IF hits = {} THEN [hh |-> DefaultHour, mm |-> DefaultMinute]
        ELSE IF Hm2At(s, i)
             THEN [hh |-> int(SubSeq(s, i, i + 1)), mm |-> int(SubSeq(s, i + 3, i + 4))]
             ELSE [hh |-> int(SubSeq(s, i, i)), mm |-> int(SubSeq(s, i + 2, i + 3))]

\* re.search(r"(\d{4})-(\d{2})-(\d{2})", s).groups() as integers
rfc3339_ymd(s) ==
    LET i == Min({j \in 1..Len(s) : DateAt(s, j)})
    IN  [y |-> int(SubSeq(s, i, i + 3)),
         m |-> int(SubSeq(s, i + 5, i + 6)),
         d |-> int(SubSeq(s, i + 8, i + 9))]

\* a faulty variant of rfc3339_date: the explicit date is tried before the keyword
rfc3339_date_explicit_first(s, now) ==
    IF \E i \in 1..Len(s) : DateAt(s, i) THEN rfc3339_ymd(s)
    ELSE IF Contains(Amanha, s) THEN NextDay(now)
    ELSE now

\* the date chosen by the if / elif / else: tomorrow, the explicit date, today
rfc3339_date(s, now) ==
    IF Contains(Amanha, s) THEN NextDay(now)
    ELSE IF \E i \in 1..Len(s) : DateAt(s, i) THEN rfc3339_ymd(s)
    ELSE now

\* _to_rfc3339_from_text(text), with datetime.now() = now.
\* datetime(...) and datetime.replace(...) raise ValueError on a date or a time
\* of day that is out of range.
_to_rfc3339_from_text(text, now) ==
    LET s == lower(strip(text))
        tz == rfc3339_tz(s)
        hm == rfc3339_hm(s)
        date == rfc3339_date(s, now)
        dt == [y |-> date.y, m |-> date.m, d |-> date.d,
               hh |-> hm.hh, mm |-> hm.mm, ss |-> 0]
    IN  IF s = <<>>
        THEN [status |-> "ValueError", msg |-> "Texto de data/hora vazio.", value |-> <<>>]
        ELSE IF ~(hm.hh \in 0..23 /\ hm.mm \in 0..59)
        THEN [status |-> "ValueError", msg |-> "time out of range", value |-> <<>>]
        ELSE IF ~ValidDate(date.y, date.m, date.d)
        THEN [status |-> "ValueError", msg |-> "date out of range", value |-> <<>>]
        ELSE [status |-> "ok", msg |-> "", value |-> strftime(dt) \o tz]

\* fragments from which the input texts are built
TextFragments ==
    { <<"A", "m", "a", "n", "h", "ã">>,
      <<" ">>,
      <<"1", "8", ":", "0", "0">>,
      <<"-", "0", "3", ":", "0", "0">>,
      <<"+", "0", "5", ":", "3", "0">>,
      <<"2", "0", "2", "4", "-", "0", "3", "-", "0", "5">>,
      <<"2", "0", "2", "4", "-", "0", "2", "-", "3", "0">>,
      <<"2", "5", ":", "0", "0">>,
      <<"9", ":", "3", "0">>,
      <<"h", "o", "j", "e">> }

Texts == {Concat(fs) : fs \in SeqsUpTo(TextFragments, MaxFrags)}

\* values of datetime.now(): end of February in a leap year, end of a year, mid-month
Todays ==
    { [y |-> 2024, m |-> 2, d |-> 28],
      [y |-> 2023, m |-> 12, d |-> 31],
      [y |-> 2025, m |-> 6, d |-> 15] }

\* values of the variables a specification does not use
IdleBoard ==
    /\ defaults = [board |-> <<>>, list |-> <<>>]
    /\ creds = TRUE
    /\ boardLists = <<>>

IdleSession ==
    /\ cards = <<>>
    /\ checklists = <<>>
    /\ call = [tool |-> "none"]
    /\ obs = [status |-> "none"]
    /\ nTools = 0
    /\ nRequests = 0

Idle == IdleBoard /\ IdleSession

SessionUnchanged == UNCHANGED <<cards, checklists, call, obs, nTools, nRequests>>

IdleUnchanged == UNCHANGED <<defaults, creds, boardLists>> /\ SessionUnchanged

InitNormalize ==
    /\ pc = "call"
    /\ arg \in {[text |-> t, now |-> n] : t \in Texts, n \in Todays}
    /\ ret = [status |-> "none"]
    /\ Idle

\* to_rfc3339(datetime_text) applied to the input
Normalize ==
    /\ pc = "call"
    /\ ret' = _to_rfc3339_from_text(arg.text, arg.now)
    /\ pc' = "returned"
    /\ UNCHANGED arg
    /\ IdleUnchanged

SpecNormalize == InitNormalize /\ [][Normalize]_vars

-----------------------------------------------------------------------------
(* Properties of the date normaliser, under SpecNormalize *)

Returned == pc = "returned"

\* the lower-cased, trimmed text the normaliser works on
ArgText == lower(strip(arg.text))

\* YYYY-MM-DD of a date, as printed in a canonical timestamp
DateText(t) == Pad4(t.y) \o <<"-">> \o Pad2(t.m) \o <<"-">> \o Pad2(t.d)

\* the date and the time of day printed in the result
RetDate == SubSeq(ret.value, 1, 10)
RetTime == SubSeq(ret.value, 12, 16)

HasKeyword == Contains(Amanha, ArgText)
HasExplicitDate == \E i \in 1..Len(ArgText) : DateAt(ArgText, i)

\* positions of the text covered by a UTC offset
OffsetPositions ==
    UNION {i..(i + 5) : i \in {j \in 1..Len(ArgText) : TzAt(ArgText, j)}}

\* the times of day HH:MM the text states outside any UTC offset
TimesOfDay ==
    {SubSeq(ArgText, i, i + 4) :
        i \in {j \in 1..Len(ArgText) :
                 Hm2At(ArgText, j) /\ (j..(j + 4)) \cap OffsetPositions = {}}}
    \cup
    {<<"0">> \o SubSeq(ArgText, i, i + 3) :
        i \in {j \in 1..Len(ArgText) :
                 /\ Hm1At(ArgText, j)
                 /\ ~Hm2At(ArgText, j - 1)
                 /\ (j..(j + 3)) \cap OffsetPositions = {}}}

\* a canonical timestamp: YYYY-MM-DDTHH:MM:SS followed by +HH:MM or -HH:MM
IsCanonical(v) ==
    /\ Len(v) = 25
    /\ \A k \in {1, 2, 3, 4, 6, 7, 9, 10, 12, 13, 15, 16, 18, 19} : IsDigit(v[k])
    /\ v[5] = "-" /\ v[8] = "-" /\ v[11] = "T" /\ v[14] = ":" /\ v[17] = ":"
    /\ TzAt(v, 20)

\* C5: the result carries the time of day the text states, and 09:00 when the
\* text states none (a UTC offset is not a time of day).
C5_TimeOfDayPreserved ==
    (Returned /\ ret.status = "ok") =>
        IF TimesOfDay = {} THEN RetTime = <<"0", "9", ":", "0", "0">>
        ELSE RetTime \in TimesOfDay

\* C6: every text that is not blank yields a canonical timestamp; only blank
\* text is refused.
C6_TotalOnNonBlank ==
    Returned =>
        IF strip(arg.text) = <<>> THEN ret.status = "ValueError"
        ELSE ret.status = "ok" /\ IsCanonical(ret.value)

\* C7: the date of the result is tomorrow whenever the keyword is present,
\* the explicit date only when the keyword is absent, today only when both
\* are absent.
C7_DatePrecedence ==
    (Returned /\ ret.status = "ok") =>
        /\ HasKeyword => RetDate = DateText(NextDay(arg.now))
        /\ (~HasKeyword /\ HasExplicitDate) => RetDate = DateText(rfc3339_ymd(ArgText))
        /\ (~HasKeyword /\ ~HasExplicitDate) => RetDate = DateText(arg.now)

\* C7 witness: a text with both the keyword and an explicit date was normalised
C7_Witness ==
    /\ Returned /\ ret.status = "ok"
    /\ HasKeyword /\ HasExplicitDate
    /\ DateText(rfc3339_ymd(ArgText)) # DateText(NextDay(arg.now))

-----------------------------------------------------------------------------
(* _board_shortlink *)

\* /b/([A-Za-z0-9]+)/ matches s at position i: "/b/", a run of alphanumerics
\* of length n >= 1, and "/"
ShortAt(s, i, n) ==
    /\ i >= 1 /\ n >= 1
    /\ i + 3 + n <= Len(s)
    /\ SubSeq(s, i, i + 2) = <<"/", "b", "/">>
    /\ \A k \in (i + 3)..(i + 2 + n) : IsAlnum(s[k])
    /\ s[i + 3 + n] = "/"

\* "/b/" and a run of alphanumerics of length n >= 1 that ends where the next
\* character, if any, is not alphanumeric: the pattern without its closing "/"
ShortOpenAt(s, i, n) ==
    /\ i >= 1 /\ n >= 1
    /\ i + 2 + n <= Len(s)
    /\ SubSeq(s, i, i + 2) = <<"/", "b", "/">>
    /\ \A k \in (i + 3)..(i + 2 + n) : IsAlnum(s[k])
    /\ (i + 3 + n <= Len(s) => ~IsAlnum(s[i + 3 + n]))

\* a faulty variant of _board_shortlink: the closing "/" is not required
_board_shortlink_no_slash(board_ref) ==
    LET hits == {i \in 1..Len(board_ref) :
                    \E n \in 1..Len(board_ref) : ShortOpenAt(board_ref, i, n)}
        i == Min(hits)
        n == CHOOSE k \in 1..Len(board_ref) : ShortOpenAt(board_ref, i, k)
    IN  IF hits = {} THEN board_ref ELSE SubSeq(board_ref, i + 3, i + 2 + n)

\* m = re.search(r"/b/([A-Za-z0-9]+)/", board_ref); m.group(1) if m else board_ref
_board_shortlink(board_ref) ==
    LET hits == {i \in 1..Len(board_ref) :
                    \E n \in 1..Len(board_ref) : ShortAt(board_ref, i, n)}
        i == Min(hits)
        n == CHOOSE k \in 1..Len(board_ref) : ShortAt(board_ref, i, k)
    IN  IF hits = {} THEN board_ref ELSE SubSeq(board_ref, i + 3, i + 2 + n)

\* fragments from which board references are built
RefFragments ==
    { <<"h", ":", "/", "/", "t">>,
      <<"/", "b", "/">>,
      <<"a", "B", "1">>,
      <<"/">>,
      <<"n", "-", "x">> }

BoardRefs == {Concat(fs) : fs \in SeqsUpTo(RefFragments, MaxRefFrags)}

InitShortlink ==
    /\ pc = "call"
    /\ arg \in BoardRefs
    /\ ret = <<>>
    /\ Idle

\* _board_shortlink applied to the input
Shortlink ==
    /\ pc = "call"
    /\ ret' = _board_shortlink(arg)
    /\ pc' = "returned"
    /\ UNCHANGED arg
    /\ IdleUnchanged

\* _board_shortlink applied to its own result
ShortlinkAgain ==
    /\ pc = "returned"
    /\ arg' = ret
    /\ ret' = _board_shortlink(ret)
    /\ pc' = "renormalized"
    /\ IdleUnchanged

NextShortlink == Shortlink \/ ShortlinkAgain

SpecShortlink == InitShortlink /\ [][NextShortlink]_vars

-----------------------------------------------------------------------------
(* Properties of the board reference normalisation, under SpecShortlink *)

SlashB == <<"/", "b", "/">>

\* every character of s is alphanumeric, and there is at least one
IsIdentifier(s) == s # <<>> /\ \A k \in 1..Len(s) : IsAlnum(s[k])

\* position of the first "/b/" of s
FirstSlashB(s) == Min({i \in 1..Len(s) : OccursAt(SlashB, s, i)})

\* the path segment that follows the first "/b/": up to the next "/" or the end
SegmentAfterB(s) ==
    LET from == FirstSlashB(s) + 3
        stops == {k \in from..Len(s) : s[k] = "/"}
    IN  IF stops = {} THEN SubSeq(s, from, Len(s)) ELSE SubSeq(s, from, Min(stops) - 1)

\* a full board URL: a scheme and host, "/b/", an identifier, and then the end
\* of the text or a "/" with anything after it
IsBoardUrl(s) ==
    /\ OccursAt(<<"h", ":", "/", "/", "t">>, s, 1)
    /\ Contains(SlashB, s)
    /\ IsIdentifier(SegmentAfterB(s))

\* the identifier of the board URL is followed by a "/"
SegmentClosed(s) == FirstSlashB(s) + 3 + Len(SegmentAfterB(s)) <= Len(s)

\* C10 as stated: every full board URL, with or without a "/" after the
\* identifier, is mapped to the segment after "/b/"; a bare identifier is
\* unchanged; normalising twice is normalising once.
C10_EveryUrlForm ==
    /\ (pc = "returned" /\ IsBoardUrl(arg)) => ret = SegmentAfterB(arg)
    /\ (pc = "returned" /\ IsIdentifier(arg)) => ret = arg
    /\ pc = "renormalized" => ret = arg

\* C10 amended: a board URL whose identifier is followed by "/" is mapped to
\* the identifier; a board URL that ends right after the identifier, and a
\* bare identifier, are returned unchanged; normalising twice is normalising
\* once.
C10_ClosedUrlForm ==
    /\ (pc = "returned" /\ IsBoardUrl(arg) /\ SegmentClosed(arg)) => ret = SegmentAfterB(arg)
    /\ (pc = "returned" /\ IsBoardUrl(arg) /\ ~SegmentClosed(arg)) => ret = arg
    /\ (pc = "returned" /\ IsIdentifier(arg)) => ret = arg
    /\ pc = "renormalized" => ret = arg

\* C10 witness: a board URL with a path after the identifier was normalised
C10_Witness ==
    /\ pc = "returned"
    /\ IsBoardUrl(arg) /\ SegmentClosed(arg)
    /\ ret = SegmentAfterB(arg) /\ ret # arg

-----------------------------------------------------------------------------
(* _get_list_id and resolve_list_id *)

\* a request to the board API, whether it succeeded, and the id of the
\* resource it created ("" when it creates none or fails)
Request(op, target, params, ok, id) ==
    [op |-> op, target |-> target, params |-> params, ok |-> ok,
     id |-> IF ok THEN id ELSE ""]

\* the request httpx.get(".../boards/{short}/lists") and whether it succeeded
ListsRequest(short, api_ok) ==
    Request("GET lists", short, [fields |-> "name,id"], api_ok, "")

\* a faulty variant of _get_list_id: one pass that takes the first list matching
\* either rule
_get_list_id_one_pass(board_ref, list_name, lists, api_ok) ==
    LET short == _board_shortlink(board_ref)
        reqs == <<ListsRequest(short, api_ok)>>
        q == lower(strip(list_name))
        hit == {i \in 1..Len(lists) :
                    \/ lower(strip(lists[i].name)) = q
                    \/ Contains(q, lower(strip(lists[i].name)))}
    IN  IF ~api_ok
        THEN [status |-> "HTTPStatusError", msg |-> "", value |-> "", reqs |-> reqs]
        ELSE IF hit # {}
        THEN [status |-> "ok", msg |-> "", value |-> lists[Min(hit)].id, reqs |-> reqs]
        ELSE [status |-> "ValueError", msg |-> "Lista não encontrada", value |-> "",
              reqs |-> reqs]

\* _get_list_id(board_ref, list_name); lists is r.json(), api_ok is FALSE when
\* raise_for_status() raises
_get_list_id(board_ref, list_name, lists, api_ok) ==
    LET short == _board_shortlink(board_ref)
        reqs == <<ListsRequest(short, api_ok)>>
        q == lower(strip(list_name))
        exact == {i \in 1..Len(lists) : lower(strip(lists[i].name)) = q}
        contains == {i \in 1..Len(lists) : Contains(q, lower(strip(lists[i].name)))}
    IN  IF ~api_ok
        THEN [status |-> "HTTPStatusError", msg |-> "", value |-> "", reqs |-> reqs]
        ELSE IF exact # {}
        THEN [status |-> "ok", msg |-> "", value |-> lists[Min(exact)].id, reqs |-> reqs]
        ELSE IF contains # {}
        THEN [status |-> "ok", msg |-> "", value |-> lists[Min(contains)].id, reqs |-> reqs]
        ELSE [status |-> "ValueError", msg |-> "Lista não encontrada", value |-> "",
              reqs |-> reqs]

\* a faulty variant of resolve_list_id: the board is queried before the arguments
\* are checked
resolve_list_id_fetch_first(board, list_name, dflt, lists, api_ok) ==
    LET _board == IF strip(board) # <<>> THEN strip(board) ELSE dflt.board
        _list == IF strip(list_name) # <<>> THEN strip(list_name) ELSE dflt.list
        r == _get_list_id(_board, _list, lists, api_ok)
    IN  IF _board = <<>> \/ _list = <<>>
        THEN [status |-> "ValueError", msg |-> "Board e lista não informados",
              value |-> "", reqs |-> r.reqs]
        ELSE r

\* resolve_list_id(board, list_name), with the defaults read from the environment
resolve_list_id(board, list_name, dflt, lists, api_ok) ==
    LET _board == IF strip(board) # <<>> THEN strip(board) ELSE dflt.board
        _list == IF strip(list_name) # <<>> THEN strip(list_name) ELSE dflt.list
    IN  IF _board = <<>> \/ _list = <<>>
        THEN [status |-> "ValueError", msg |-> "Board e lista não informados",
              value |-> "", reqs |-> <<>>]
        ELSE _get_list_id(_board, _list, lists, api_ok)

\* identifiers the board gives its lists, by position
ListIds == <<"L1", "L2", "L3", "L4", "L5">>

\* names of lists on the board
ListNames ==
    { <<"A", " ", "F", "a", "z", "e", "r">>,
      <<"F", "a", "z", "e", "n", "d", "o">>,
      <<" ", "f", "a", "z", "e", "r", " ">>,
      <<"Q", "A">> }

\* the boards: every sequence of at most MaxLists lists
Boards ==
    {[i \in 1..Len(ns) |-> [id |-> ListIds[i], name |-> ns[i]]] :
        ns \in SeqsUpTo(ListNames, MaxLists)}

\* list names asked for; the empty one stands for an argument left blank
ListQueries ==
    { <<>>,
      <<"F", "a", "z", "e", "r">>,
      <<"a", " ", "f", "a", "z", "e", "r">>,
      <<" ", "Q", "a", " ">>,
      <<"x">> }

\* board references asked for
BoardQueries == { <<>>, <<"h", ":", "/", "/", "t", "/", "b", "/", "a", "B", "1", "/", "n">> }

\* values of ENV_DEFAULT_BOARD and ENV_DEFAULT_LIST (stripped when read)
DefaultChoices ==
    { [board |-> b, list |-> l] : b \in {<<>>, <<"a", "B", "1">>},
                                  l \in {<<>>, <<"Q", "A">>} }

InitResolve ==
    /\ pc = "call"
    /\ arg \in [board : BoardQueries, list_name : ListQueries, api_ok : BOOLEAN]
    /\ ret = [status |-> "none"]
    /\ defaults \in DefaultChoices
    /\ creds = TRUE
    /\ boardLists \in Boards
    /\ IdleSession

\* resolve_list_id applied to the input
Resolve ==
    /\ pc = "call"
    /\ ret' = resolve_list_id(arg.board, arg.list_name, defaults, boardLists, arg.api_ok)
    /\ pc' = "returned"
    /\ UNCHANGED <<arg, defaults, creds, boardLists>>
    /\ SessionUnchanged

SpecResolve == InitResolve /\ [][Resolve]_vars

-----------------------------------------------------------------------------
(* Properties of the list lookup, under SpecResolve *)

\* the list name looked up: the argument, or the default when it is blank
AskedList ==
    lower(IF strip(arg.list_name) # <<>> THEN strip(arg.list_name) ELSE defaults.list)

\* the lookup ran: both names were available and the board answered
LookedUp ==
    /\ pc = "returned"
    /\ ret.reqs # <<>>
    /\ arg.api_ok

\* positions of the lists whose trimmed name equals the name asked for
ExactMatches == {i \in 1..Len(boardLists) : lower(strip(boardLists[i].name)) = AskedList}

\* positions of the lists whose lower-cased name contains the name asked for
SubstringMatches == {i \in 1..Len(boardLists) : Contains(AskedList, lower(boardLists[i].name))}

\* C4: the first exact match wins over any substring match, the first
\* substring match is the fallback, and the lookup fails only when no list
\* matches either way.
C4_ExactThenSubstring ==
    LookedUp =>
        /\ ExactMatches # {} =>
              ret.status = "ok" /\ ret.value = boardLists[Min(ExactMatches)].id
        /\ (ExactMatches = {} /\ SubstringMatches # {}) =>
              ret.status = "ok" /\ ret.value = boardLists[Min(SubstringMatches)].id
        /\ ret.status = "ValueError" <=> (ExactMatches = {} /\ SubstringMatches = {})

\* C4 witness: a list that only contains the name precedes the list that
\* equals it, and the lookup returned the latter
C4_Witness ==
    /\ LookedUp
    /\ ExactMatches # {} /\ SubstringMatches # {}
    /\ Min(SubstringMatches) < Min(ExactMatches)
    /\ ret.value = boardLists[Min(ExactMatches)].id

-----------------------------------------------------------------------------
(* The card and checklist tools *)

\* trello_create_card(list_id, name, desc, due); api is the board's answer.
\* An absent due is the empty text: `if due` treats None and "" alike.
trello_create_card(list_id, name, desc, due, api) ==
    LET base == [idList |-> list_id, name |-> name, desc |-> desc]
        params == IF due # <<>> THEN base @@ [due |-> due] ELSE base
        req == Request("POST cards", list_id, params, api.ok, api.id)
    IN  IF ~api.ok
        THEN [status |-> "HTTPStatusError", msg |-> "", value |-> "", reqs |-> <<req>>]
        ELSE [status |-> "ok", msg |-> "",
              value |-> [id |-> api.id, url |-> api.url], reqs |-> <<req>>]

\* trello_set_desc(card_id, desc)
trello_set_desc(card_id, desc, api_ok) ==
    LET req == Request("PUT card", card_id, [desc |-> desc], api_ok, "")
    IN  IF ~api_ok
        THEN [status |-> "HTTPStatusError", msg |-> "", value |-> "", reqs |-> <<req>>]
        ELSE [status |-> "ok", msg |-> "", value |-> "Descrição atualizada",
              reqs |-> <<req>>]

\* a faulty variant of add_items that swallows a failed call and goes on
RECURSIVE add_items_keep_going(_, _, _, _)
add_items_keep_going(items, checklist_id, sent, failAt) ==
    IF items = <<>> THEN [reqs |-> <<>>, failed |-> FALSE]
    ELSE LET it == strip(Head(items))
         IN  IF it = <<>>
             THEN add_items_keep_going(Tail(items), checklist_id, sent, failAt)
             ELSE LET ok == sent + 1 # failAt
                      req == Request("POST checkItems", checklist_id, [name |-> it], ok, "")
                      rest == add_items_keep_going(Tail(items), checklist_id, sent + 1, failAt)
                  IN  [reqs |-> <<req>> \o rest.reqs, failed |-> ~ok \/ rest.failed]

\* a faulty variant of add_items that sends every item as given
RECURSIVE add_items_as_given(_, _, _, _)
add_items_as_given(items, checklist_id, sent, failAt) ==
    IF items = <<>> THEN [reqs |-> <<>>, failed |-> FALSE]
    ELSE LET it == Head(items)
             ok == sent + 1 # failAt
             req == Request("POST checkItems", checklist_id, [name |-> it], ok, "")
             rest == add_items_as_given(Tail(items), checklist_id, sent + 1, failAt)
         IN  IF ~ok THEN [reqs |-> <<req>>, failed |-> TRUE]
             ELSE [reqs |-> <<req>> \o rest.reqs, failed |-> rest.failed]

\* the loop `for it in items` of trello_add_checklist: the requests it issues.
\* sent counts the requests of the call issued so far; the request numbered
\* failAt is the one the board refuses, and raise_for_status() ends the loop.
RECURSIVE add_items(_, _, _, _)
add_items(items, checklist_id, sent, failAt) ==
    IF items = <<>> THEN [reqs |-> <<>>, failed |-> FALSE]
    ELSE LET it == strip(Head(items))
         IN  IF it = <<>>
             THEN add_items(Tail(items), checklist_id, sent, failAt)
             ELSE LET ok == sent + 1 # failAt
                      req == Request("POST checkItems", checklist_id, [name |-> it], ok, "")
                      rest == add_items(Tail(items), checklist_id, sent + 1, failAt)
                  IN  IF ~ok THEN [reqs |-> <<req>>, failed |-> TRUE]
                      ELSE [reqs |-> <<req>> \o rest.reqs, failed |-> rest.failed]

\* trello_add_checklist(card_id, checklist_name, items); api.id is the id the
\* board gives the new checklist, api.failAt the number of the request of this
\* call that the board refuses (0: none; 1 is the creation of the checklist)
trello_add_checklist(card_id, checklist_name, items, api) ==
    LET rc == Request("POST checklists", card_id, [name |-> checklist_name],
                      api.failAt # 1, api.id)
        loop == add_items(items, api.id, 1, api.failAt)
    IN  IF ~rc.ok
        THEN [status |-> "HTTPStatusError", msg |-> "", value |-> "", reqs |-> <<rc>>]
        ELSE IF loop.failed
        THEN [status |-> "HTTPStatusError", msg |-> "", value |-> "",
              reqs |-> <<rc>> \o loop.reqs]
        ELSE [status |-> "ok", msg |-> "",
              value |-> [name |-> checklist_name, count |-> Len(items)],
              reqs |-> <<rc>> \o loop.reqs]

-----------------------------------------------------------------------------
(* The board: what the accepted requests do to it *)

CardIds == <<"K1", "K2", "K3", "K4", "K5">>
CardUrls == <<"U1", "U2", "U3", "U4", "U5">>
ChecklistIds == <<"H1", "H2", "H3", "H4", "H5">>

IdsOf(seq) == {seq[i].id : i \in 1..Len(seq)}

\* the board after one accepted request
BoardApply(board, req) ==
    IF ~req.ok THEN board
    ELSE IF req.op = "POST cards"
    THEN [board EXCEPT !.cards = Append(@, [id |-> req.id, params |-> req.params])]
    ELSE IF req.op = "PUT card"
    THEN [board EXCEPT !.cards =
            [i \in 1..Len(@) |->
                IF @[i].id = req.target
                THEN [@[i] EXCEPT !.params = [@ EXCEPT !.desc = req.params.desc]]
                ELSE @[i]]]
    ELSE IF req.op = "POST checklists"
    THEN [board EXCEPT !.checklists =
            Append(@, [id |-> req.id, card |-> req.target,
                       name |-> req.params.name, items |-> <<>>])]
    ELSE IF req.op = "POST checkItems"
    THEN [board EXCEPT !.checklists =
            [i \in 1..Len(@) |->
                IF @[i].id = req.target
                THEN [@[i] EXCEPT !.items = Append(@, req.params.name)]
                ELSE @[i]]]
    ELSE board

\* the board after a sequence of requests
RECURSIVE BoardAfter(_, _)
BoardAfter(board, reqs) ==
    IF reqs = <<>> THEN board
    ELSE BoardAfter(BoardApply(board, Head(reqs)), Tail(reqs))

-----------------------------------------------------------------------------
(* A session: main() and the tool calls the agent makes *)

\* the board of the session: its lists, and a card that is already there
SessionLists ==
    << [id |-> "L1", name |-> <<"A", " ", "F", "a", "z", "e", "r">>],
       [id |-> "L2", name |-> <<"F", "a", "z", "e", "n", "d", "o">>] >>

ExistingCard == [id |-> "K1", params |-> [idList |-> "L1", name |-> "n0", desc |-> ""]]

\* arguments the planner may pass
SessionTexts == { <<>>, <<"A", "m", "a", "n", "h", "ã">>, <<"2", "5", ":", "0", "0">> }
SessionListNames == { <<>>, <<"F", "a", "z", "e", "r">>, <<"x">> }
SessionListIds == {"L1", "L9"}
SessionCardIds == {"K1", "K9"}
SessionDescs == {"", "d"}
SessionDefaults == {d \in DefaultChoices : (d.board = <<>>) = (d.list = <<>>)}
SessionNow == [y |-> 2024, m |-> 2, d |-> 28]
SessionDues == { <<>>, _to_rfc3339_from_text(Amanha, [y |-> 2025, m |-> 6, d |-> 15]).value }
SessionItemLists == { <<>>, << <<>>, <<" ", "a", " ">>, <<" ", " ">>, <<"b">> >> }

NoCall == [tool |-> "none", args |-> <<>>, reqs |-> <<>>]
NoObs == [tool |-> "none", status |-> "none", msg |-> "", value |-> ""]

Init ==
    /\ pc = "start"
    /\ arg = <<>>
    /\ ret = <<>>
    /\ defaults \in SessionDefaults
    /\ creds \in BOOLEAN
    /\ boardLists = SessionLists
    /\ cards = <<ExistingCard>>
    /\ checklists = <<>>
    /\ call = NoCall
    /\ obs = NoObs
    /\ nTools = 0
    /\ nRequests = 0

\* main(), up to agent.invoke: without credentials the run exits at once
main ==
    /\ pc = "start"
    /\ pc' = IF creds THEN "planning" ELSE "exit"
    /\ UNCHANGED <<arg, ret, defaults, creds, boardLists, cards, checklists,
                   call, obs, nTools, nRequests>>

\* the agent may call a tool
CanCall == pc = "planning" /\ nTools < MaxToolCalls

\* a tool call ended with result r: its requests reached the board, and its
\* return value or error is the observation. An error either is shown to the
\* planner or ends the run.
Observe(tool, args, r) ==
    LET b == BoardAfter([cards |-> cards, checklists |-> checklists], r.reqs)
    IN  /\ call' = [tool |-> tool, args |-> args, reqs |-> r.reqs]
        /\ obs' = [tool |-> tool, status |-> r.status, msg |-> r.msg, value |-> r.value]
        /\ nTools' = nTools + 1
        /\ nRequests' = nRequests + Len(r.reqs)
        /\ cards' = b.cards
        /\ checklists' = b.checklists
        /\ pc' \in (IF r.status = "ok" THEN {"planning"} ELSE {"planning", "raised"})
        /\ UNCHANGED <<arg, ret, defaults, creds, boardLists>>

\* the tool to_rfc3339
to_rfc3339 ==
    /\ CanCall
    /\ \E text \in SessionTexts :
          Observe("to_rfc3339", [datetime_text |-> text],
                  _to_rfc3339_from_text(text, SessionNow) @@ [reqs |-> <<>>])

\* the tool resolve_list_id
resolve_list_id_tool ==
    /\ CanCall
    /\ \E board \in BoardQueries, list_name \in SessionListNames, api_ok \in BOOLEAN :
          Observe("resolve_list_id", [board |-> board, list_name |-> list_name],
                  resolve_list_id(board, list_name, defaults, boardLists, api_ok))

\* the tool trello_create_card; the board refuses a list it does not have
trello_create_card_tool ==
    /\ CanCall
    /\ \E list_id \in SessionListIds, desc \in SessionDescs, due \in SessionDues,
          ok \in BOOLEAN :
          /\ ok => list_id \in IdsOf(boardLists)
          /\ Observe("trello_create_card",
                     [list_id |-> list_id, name |-> "n", desc |-> desc, due |-> due],
                     trello_create_card(list_id, "n", desc, due,
                        [ok |-> ok, id |-> CardIds[Len(cards) + 1],
                         url |-> CardUrls[Len(cards) + 1]]))

\* the tool trello_set_desc; the board refuses a card it does not have
trello_set_desc_tool ==
    /\ CanCall
    /\ \E card_id \in SessionCardIds, ok \in BOOLEAN :
          /\ ok => card_id \in IdsOf(cards)
          /\ Observe("trello_set_desc", [card_id |-> card_id, desc |-> "d2"],
                     trello_set_desc(card_id, "d2", ok))

\* a call of trello_add_checklist in which the board refuses the request
\* numbered failAt; the board refuses a card it does not have
AddChecklist(card_id, items, failAt) ==
    /\ card_id \notin IdsOf(cards) => failAt = 1
    /\ Observe("trello_add_checklist",
               [card_id |-> card_id, checklist_name |-> "Tarefas", items |-> items],
               trello_add_checklist(card_id, "Tarefas", items,
                  [id |-> ChecklistIds[Len(checklists) + 1], failAt |-> failAt]))

\* the tool trello_add_checklist
trello_add_checklist_tool ==
    /\ CanCall
    /\ \E card_id \in SessionCardIds, items \in SessionItemLists :
          \E failAt \in 0..(Len(items) + 1) : AddChecklist(card_id, items, failAt)

\* the planner gives its final answer: agent.invoke returns and main prints it
final_answer ==
    /\ pc = "planning"
    /\ pc' = "done"
    /\ UNCHANGED <<arg, ret, defaults, creds, boardLists, cards, checklists,
                   call, obs, nTools, nRequests>>

Next ==
    \/ main
    \/ to_rfc3339
    \/ resolve_list_id_tool
    \/ trello_create_card_tool
    \/ trello_set_desc_tool
    \/ trello_add_checklist_tool
    \/ final_answer

Spec == Init /\ [][Next]_vars

-----------------------------------------------------------------------------
(* trello_add_checklist on every list of items *)

\* items the planner may pass: empty, blank, padded and plain
ItemStrings == { <<>>, <<" ", " ">>, <<" ", "a", " ">>, <<"b">> }
ItemLists == SeqsUpTo(ItemStrings, MaxItems)

\* a checklist that may already be on the card
OldChecklist == [id |-> "H1", card |-> "K1", name |-> "Antes", items |-> << <<"b">> >>]

InitChecklist ==
    /\ pc = "planning"
    /\ arg \in {a \in [card_id : SessionCardIds, items : ItemLists,
                      failAt : 0..(MaxItems + 1)] :
                   /\ a.failAt <= Len(a.items) + 1
                   /\ a.card_id # "K1" => a.failAt = 1}
    /\ ret = <<>>
    /\ defaults = [board |-> <<>>, list |-> <<>>]
    /\ creds = TRUE
    /\ boardLists = SessionLists
    /\ cards = <<ExistingCard>>
    /\ checklists \in {<<>>, <<OldChecklist>>}
    /\ call = NoCall
    /\ obs = NoObs
    /\ nTools = 0
    /\ nRequests = 0

\* trello_add_checklist applied to the input
AddChecklistOnce ==
    /\ pc = "planning"
    /\ nTools = 0
    /\ AddChecklist(arg.card_id, arg.items, arg.failAt)

SpecChecklist == InitChecklist /\ [][AddChecklistOnce]_vars

-----------------------------------------------------------------------------
(* Properties of trello_add_checklist, under SpecChecklist *)

\* the call observed is a call of trello_add_checklist
AddCall == obs.tool = "trello_add_checklist"

\* it returned its confirmation
AddSucceeded == AddCall /\ obs.status = "ok"

\* it created the checklist and then failed on an item
AddFailedOnItem == AddCall /\ obs.status = "HTTPStatusError" /\ call.reqs[1].ok

\* the input items, trimmed, without those that are blank
Wanted ==
    LET items == call.args.items
    IN  SelectSeq([i \in 1..Len(items) |-> strip(items[i])], LAMBDA it : it # <<>>)

\* the 'add item' requests of the call, and the names they carry
ItemRequests == SelectSeq(call.reqs, LAMBDA r : r.op = "POST checkItems")
ItemNames == [i \in 1..Len(ItemRequests) |-> ItemRequests[i].params.name]

\* the checklist of the call, as it is on the board
NewChecklist ==
    LET i == CHOOSE j \in 1..Len(checklists) : checklists[j].id = call.reqs[1].id
    IN  checklists[i]

\* C1: the count in the confirmation is the number of items added, which is
\* the number of 'add item' calls issued.
C1_CountIsItemsAdded ==
    AddSucceeded =>
        /\ obs.value.count = Len(NewChecklist.items)
        /\ obs.value.count = Len(ItemRequests)

\* C2: when an 'add item' call fails after N items were added, it is the last
\* request of the call, nothing is deleted, and the checklist holds exactly
\* the first N wanted items in order.
C2_NoRollback ==
    AddFailedOnItem =>
        LET n == Len(NewChecklist.items)
        IN  /\ n < Len(Wanted)
            /\ NewChecklist.items = SubSeq(Wanted, 1, n)
            /\ ItemNames = SubSeq(Wanted, 1, n + 1)
            /\ Len(call.reqs) = n + 2
            /\ \A k \in 1..Len(call.reqs) :
                  /\ call.reqs[k].op \in {"POST checklists", "POST checkItems"}
                  /\ call.reqs[k].ok <=> k < Len(call.reqs)

\* C2 witness: the call failed after an item was added and before the last
\* wanted item was tried
C2_Witness ==
    /\ AddFailedOnItem
    /\ Len(NewChecklist.items) >= 1
    /\ Len(NewChecklist.items) + 1 < Len(Wanted)

\* C3: after a successful call the checklist holds exactly the wanted items
\* in order, one 'add item' call was made for each of them and none for a
\* blank item, and the one checklist was created before any item was added.
C3_TrimmedItemsInOrder ==
    AddSucceeded =>
        /\ NewChecklist.items = Wanted
        /\ ItemNames = Wanted
        /\ call.reqs[1].op = "POST checklists"
        /\ Len(call.reqs) = 1 + Len(ItemRequests)
        /\ Cardinality({j \in 1..Len(checklists) : checklists[j].id = call.reqs[1].id}) = 1

\* C3 witness: a successful call whose items held a blank one, a padded one
\* and two that differ
C3_Witness ==
    /\ AddSucceeded
    /\ Len(Wanted) < Len(call.args.items)
    /\ \E i, j \in 1..Len(Wanted) : Wanted[i] # Wanted[j]
    /\ \E i \in 1..Len(call.args.items) :
          /\ strip(call.args.items[i]) # <<>>
          /\ strip(call.args.items[i]) # call.args.items[i]

-----------------------------------------------------------------------------
(* Properties of the session, under Spec *)

ResolveCall == obs.tool = "resolve_list_id"

\* the call failed for want of a board reference or a list name
ConfigurationError ==
    /\ ResolveCall
    /\ obs.status = "ValueError"
    /\ obs.msg = "Board e lista não informados"

\* an argument of the call is blank and so is its default
MissingBoardOrList ==
    \/ strip(call.args.board) = <<>> /\ defaults.board = <<>>
    \/ strip(call.args.list_name) = <<>> /\ defaults.list = <<>>

\* C8 as stated: the error for a missing board or list comes before any tool
\* has run and before any request to the board.
C8_BeforeAnyTool ==
    ConfigurationError => nTools = 1 /\ nRequests = 0

\* C8 amended: resolve raises the error exactly when an argument and its
\* default are both blank, and then it has issued no request to the board.
C8_BeforeAnyRequestOfResolve ==
    ResolveCall =>
        /\ MissingBoardOrList <=> ConfigurationError
        /\ MissingBoardOrList => call.reqs = <<>>

\* C8 witness: the error was raised after other tools had run and had sent
\* requests to the board
C8_Witness ==
    /\ ConfigurationError
    /\ nTools >= 2
    /\ nRequests >= 1

====
